---- MODULE Spec2Model ----
(***************************************************************************)
(* govr-scan: the discovery-and-probe pipeline of scan.GetDevicesOnNetwork *)
(* (src/scan/scan.go) and the ONVIF protocol client onvif.Device           *)
(* (src/onvif/device.go).                                                  *)
(*                                                                         *)
(* One run of GetDevicesOnNetwork is a sequential process: it enumerates   *)
(* the interfaces, runs ws-discovery on each, port-scans, merges the       *)
(* candidates and probes every candidate it has not seen.  Each HTTP       *)
(* request of Device.Probe is one step; the device's answers, the clock    *)
(* and the results of the external collaborators are chosen by the         *)
(* environment from small sets.                                            *)
(***************************************************************************)
EXTENDS Integers, Sequences, FiniteSets, TLC

VARIABLES
    pc,             \* the phase GetDevicesOnNetwork is in: start, discovery, probe
    status,         \* running, returned (GetDevicesOnNetwork returned) or panicked (the process died)
    runErr,         \* the error GetDevicesOnNetwork returned, or the panic value ("" = nil)
    username,       \* configuration: credentials handed to GetDevicesOnNetwork
    password,
    ifaces,         \* scan.go:18  set of interface names returned by GetPrivateIP4Interfaces
    todo,           \* scan.go:25  interfaces the range loop has not visited yet
    discErr,        \* scan.go:27  the error of the last GetONVIFVideoTransmitters call ("" = nil)
    candidates,     \* scan.go:24  merged candidate list
    portCandidates, \* scan.go:39  result of FindHostsWithOpenPort
    seen,           \* scan.go:48  seen-set of the probing loop
    idx,            \* scan.go:51  index of the next candidate of the range loop
    d,              \* scan.go:59  the Device of the current loop iteration
    ppc,            \* position inside d.Probe: idle, the request to issue next, or ret
    profiles,       \* device.go:175 local slice of GetProfiles
    pi,             \* device.go:176 index of the range loop of GetProfiles
    retValid,       \* device.go:190 first result of Probe
    retErr,         \* device.go:190 second result of Probe ("" = nil)
    reqs,           \* history: the requests makeRequest issued for the current Device
    now,            \* the local clock (time.Now)
    found,          \* history: the devices logged as "onvif device found" (scan.go:84)
    probeCount,     \* history: number of d.Probe calls per candidate string
    devices,        \* scan.go:16   the []*onvif.Device GetDevicesOnNetwork returned (<< >> = nil)
    \* FindHostsWithOpenPort (scan.go:97-145)
    fIfaces,        \* scan.go:97   the ifaces argument: interface name -> CIDR
    fTodo,          \* scan.go:102  interfaces the range loop has not visited yet
    fCands,         \* scan.go:99   keys of the candidates map
    fpc,            \* position of FindHostsWithOpenPort: idle, collect, spawn, returned, panicked
    task,           \* scan.go:129  position of the task of each candidate it was started for
    dialErr,        \* part_000:62  the error net.DialTimeout gave each task ("" = nil)
    tmp,            \* scan.go:138  the slice a task read from keepers, about to be appended to
    keepers,        \* scan.go:125  the shared accumulator
    mu,             \* scan.go:126  holder of the mutex ("" = unlocked)
    fResult,        \* scan.go:144  the slice FindHostsWithOpenPort returned
    \* GetONVIFVideoTransmitters (discovery.go:67-173)
    gpc,            \* position: idle, setup, read, returned
    msgID,          \* discovery.go:71   the message identifier of the probe
    packet,         \* discovery.go:117  the packet ReadFrom delivered last: src and b[:n]
    nRead,          \* history: number of packets read
    gBad,           \* history: which packet was the last one that did not unmarshal (0 = none)
    gNow,           \* seconds passed since the read deadline was set
    transmitters,   \* discovery.go:113
    gResult,        \* the list GetONVIFVideoTransmitters returned (<< >> = nil too)
    gErr,           \* the error GetONVIFVideoTransmitters returned ("" = nil)
    \* GetIPsOnNetwork (part_000:40-58)
    nCidr,          \* part_000:40  the cidr argument
    nP,             \* part_000:46  p, the masked prefix
    nAddr,          \* part_000:49  addr, the loop's address
    nIps,           \* part_000:48  ips, the list built and returned
    npc,            \* position: idle, called, loop, returned
    \* the password digest of makeRequest (device.go:306-314)
    hIn,            \* the (nonce, created, password) of two requests
    hpc,            \* position: idle, write, round, sum, done
    hBlocks,        \* crypto/sha1: the 64-byte blocks still to be hashed, as 16 words each
    hW,             \* crypto/sha1: the message schedule of the current block
    hT,             \* crypto/sha1: the round
    hReg,           \* crypto/sha1: the working registers a, b, c, d, e
    hH,             \* crypto/sha1: the chaining value h0..h4
    hOut            \* device.go:314  the base64 digests computed so far

vars == <<pc, status, runErr, username, password, ifaces, todo, discErr, candidates,
          portCandidates, seen, idx, d, ppc, profiles, pi, retValid, retErr,
          reqs, now, found, probeCount, devices>>

scanVars  == <<fIfaces, fTodo, fCands, fpc, task, dialErr, tmp, keepers, mu, fResult>>
discoVars == <<gpc, msgID, packet, nRead, gBad, gNow, transmitters, gResult, gErr>>
ipVars    == <<nCidr, nP, nAddr, nIps, npc>>
digestVars == <<hIn, hpc, hBlocks, hW, hT, hReg, hH, hOut>>
auxVars   == <<scanVars, discoVars, ipVars, digestVars>>
allVars   == <<vars, auxVars>>

runVars   == <<pc, status, runErr, devices>>
confVars  == <<username, password>>
discVars  == <<ifaces, todo, discErr>>
candVars  == <<candidates, portCandidates>>
loopVars  == <<seen, idx, probeCount>>
retVars   == <<retValid, retErr>>
profVars  == <<profiles, pi>>

(***************************************************************************)
(* Bounds of the model.                                                    *)
(***************************************************************************)
\* most endpoints one GetONVIFVideoTransmitters call returns
MaxDisc == 1
\* most profiles a GetProfiles response lists
MaxProfiles == 3
\* most packets one GetONVIFVideoTransmitters call reads before its deadline
MaxPackets == 2

(***************************************************************************)
(* Program constants.                                                      *)
(***************************************************************************)
\* device.go:339  trace.ResponseBody[:128]
SnippetLen == 128
\* device.go:333  http.StatusOK
StatusOK == 200
\* part_002:21    Config.Port default
DefaultPort == 80
\* scan.go:107    len(ips) <= 256
ScanLimit == 256
\* discovery.go:109  the read deadline, in seconds after the probe was sent
ReadDeadline == 3

(***************************************************************************)
(* The environment: interfaces, hosts, devices' answers.                   *)
(***************************************************************************)
IFaces == {"eth0", "wlan0"}

\* the CIDR GetPrivateIP4Interfaces reports for each interface; both
\* interfaces sit on the same /31, so their host lists overlap
IFaceCIDR ==
    [i \in IFaces |-> IF i = "eth0" THEN [ip |-> <<192, 168, 1, 1>>, bits |-> 31]
                                   ELSE [ip |-> <<192, 168, 1, 0>>, bits |-> 31]]

Credentials == { <<"", "">>, <<"admin", "secret">> }

MediaAddrs == {"", "http://192.168.1.1/onvif/media_service"}
Skews      == {-3, 0, 5}
Manufacturers == {"Amcrest"}
GoodURI    == "rtsp://192.168.1.1:554/cam/realmonitor"
BadURI     == "rtsp://192.168.1.1:port/cam"
URIs       == {GoodURI, BadURI}

\* HTTP exchanges as makeRequest sees them: whether DoTrace returned without
\* error, the status, whether the body unmarshals, the length of the body and
\* the capacity of its slice (which the httpx library decides, at least the length)
Responses ==
    { [transport |-> FALSE, status |-> 0,   wellFormed |-> FALSE, len |-> 0,   cap |-> 0],
      [transport |-> TRUE,  status |-> 401, wellFormed |-> FALSE, len |-> 0,   cap |-> 512],
      [transport |-> TRUE,  status |-> 200, wellFormed |-> FALSE, len |-> 200, cap |-> 512],
      [transport |-> TRUE,  status |-> 200, wellFormed |-> FALSE, len |-> 16,  cap |-> 16],
      [transport |-> TRUE,  status |-> 200, wellFormed |-> TRUE,  len |-> 300, cap |-> 512] }

Range(s) == { s[i] : i \in DOMAIN s }

\* all orderings of a finite set, as sequences without repetition
Orderings(S) ==
    { s \in [1..Cardinality(S) -> S] : \A i, j \in 1..Cardinality(S) : s[i] = s[j] => i = j }

(***************************************************************************)
(* network: prefixes and addresses (netip), as octet tuples.               *)
(***************************************************************************)
Pow2(n) == 2 ^ n

\* the number of leading bits of octet k a prefix of the given length keeps
KeptBits(k, bits) ==
    LET rest == bits - 8 * (k - 1)
    IN  IF rest <= 0 THEN 0 ELSE IF rest >= 8 THEN 8 ELSE rest

MaskAddr(a, bits) == [k \in 1..4 |-> a[k] - (a[k] % Pow2(8 - KeptBits(k, bits)))]

\* mutant: the prefix is used as given, host bits included
Masked_HostBitsKept(p) == p

\* netip.Prefix.Masked
Masked(p) == [ip |-> MaskAddr(p.ip, p.bits), bits |-> p.bits]

\* the zero Addr, which Addr.Next returns past 255.255.255.255
ZeroAddr == <<>>

\* netip.Prefix.Contains, for a masked prefix
Contains(p, a) == a # ZeroAddr /\ MaskAddr(a, p.bits) = p.ip

\* netip.Addr.Next
AddrNext(a) ==
    IF a[4] < 255 THEN [a EXCEPT ![4] = a[4] + 1]
    ELSE IF a[3] < 255 THEN [a EXCEPT ![3] = a[3] + 1, ![4] = 0]
    ELSE IF a[2] < 255 THEN [a EXCEPT ![2] = a[2] + 1, ![3] = 0, ![4] = 0]
    ELSE IF a[1] < 255 THEN [a EXCEPT ![1] = a[1] + 1, ![2] = 0, ![3] = 0, ![4] = 0]
    ELSE ZeroAddr

\* netip.Addr.String
AddrString(a) ==
    ToString(a[1]) \o "." \o ToString(a[2]) \o "." \o ToString(a[3]) \o "." \o ToString(a[4])

RECURSIVE IPsFrom(_, _, _)
IPsFrom(p, addr, ips) ==
    IF ~Contains(p, addr) THEN ips
    ELSE IPsFrom(p, AddrNext(addr), Append(ips, AddrString(addr)))

\* part_000:40-58
GetIPsOnNetwork(cidr) == IPsFrom(Masked(cidr), Masked(cidr).ip, << >>)

\* scan.go:109  fmt.Sprintf("%s:%d", ip, port)
HostPort(ip, port) == ip \o ":" \o ToString(port)

\* mutant: the port is cut off the scanned host before the candidate is formed
DeviceServiceURL_NoPort(hostport) ==
    "http://" \o SubSeq(hostport, 1, Len(hostport) - 3) \o "/onvif/device_service"

\* scan.go:44   fmt.Sprintf("http://%s/onvif/device_service", candidate)
DeviceServiceURL(hostport) == "http://" \o hostport \o "/onvif/device_service"

\* scan.go:99-122  the candidate set FindHostsWithOpenPort dials
ScanCandidates(ifs, port) ==
    UNION { IF Len(GetIPsOnNetwork(IFaceCIDR[i])) <= ScanLimit
            THEN { HostPort(ip, port) : ip \in Range(GetIPsOnNetwork(IFaceCIDR[i])) }
            ELSE {} : i \in ifs }

\* the endpoints a discovery call can return: devices answering the probe,
\* their host already replaced by the UDP source address (discovery.go:161)
Discoverable == { DeviceServiceURL(HostPort("192.168.1.1", DefaultPort)) }

\* every candidate string a run can meet
CandidateStrings ==
    Discoverable \cup { DeviceServiceURL(h) : h \in ScanCandidates(IFaces, DefaultPort) }

(***************************************************************************)
(* onvif.Device                                                            *)
(***************************************************************************)
NewDevice(address, user, pass) ==
    [ Address           |-> address,
      Username          |-> user,
      Password          |-> pass,
      ClockOffset       |-> 0,
      Capabilities      |-> [Media |-> ""],
      DeviceInformation |-> [Manufacturer |-> ""],
      Profiles          |-> << >> ]

\* mutant: the timestamp is the local time, the offset is not applied
Created_LocalTime(dev, t) == t

\* device.go:307  time.Now().Add(d.ClockOffset)
Created(dev, t) == t + dev.ClockOffset

\* device.go:304-316  the header block of the envelope
Header(dev, t) ==
    IF dev.Username # ""
    THEN [auth |-> TRUE,  created |-> Created(dev, t)]
    ELSE [auth |-> FALSE, created |-> 0]

\* device.go:327-342  what makeRequest does with the exchange
makeRequest(r) ==
    IF ~r.transport THEN "err"
    ELSE IF r.status # StatusOK THEN "err"
    ELSE IF ~r.wellFormed
         THEN IF SnippetLen > r.cap THEN "panic" ELSE "err"
    ELSE "ok"

\* the history entry of one request: what was sent (operation, url, the
\* profile token of a GetStreamUri, the header) and what came of it
Request(op, url, arg, out, answer) ==
    [ op |-> op, url |-> url, arg |-> arg, at |-> now,
      auth |-> Header(d, now).auth, created |-> Header(d, now).created,
      result |-> out, answer |-> IF out = "ok" THEN answer ELSE "" ]

\* every request takes one tick of the local clock
Issue(op, url, arg, out, answer) ==
    /\ reqs' = Append(reqs, Request(op, url, arg, out, answer))
    /\ now' = now + 1

Return(valid, err) ==
    /\ ppc' = "ret"
    /\ retValid' = valid
    /\ retErr' = err

\* an unrecovered panic ends the process where it is
Panic(msg) ==
    /\ status' = "panicked"
    /\ runErr' = msg
    /\ UNCHANGED <<pc, devices>>

\* return nil, err
ReturnError(err) ==
    /\ status' = "returned"
    /\ runErr' = err
    /\ devices' = << >>
    /\ UNCHANGED pc

(***************************************************************************)
(* Init: the process has been started with its configuration.              *)
(***************************************************************************)
InitRun ==
    /\ pc = "start"
    /\ status = "running"
    /\ runErr = ""
    /\ \E c \in Credentials : username = c[1] /\ password = c[2]
    /\ ifaces = {}
    /\ todo = {}
    /\ discErr = ""
    /\ candidates = << >>
    /\ portCandidates = << >>
    /\ seen = {}
    /\ idx = 1
    /\ d = NewDevice("", "", "")
    /\ ppc = "idle"
    /\ profiles = << >>
    /\ pi = 1
    /\ retValid = FALSE
    /\ retErr = ""
    /\ reqs = << >>
    /\ now = 0
    /\ found = << >>
    /\ probeCount = [c \in CandidateStrings |-> 0]
    /\ devices = << >>

\* FindHostsWithOpenPort has not been called
IdleScan ==
    /\ fIfaces = << >>
    /\ fTodo = {}
    /\ fCands = {}
    /\ fpc = "idle"
    /\ task = << >>
    /\ dialErr = << >>
    /\ tmp = << >>
    /\ keepers = << >>
    /\ mu = ""
    /\ fResult = << >>

\* GetONVIFVideoTransmitters has not been called
IdleDiscovery ==
    /\ gpc = "idle"
    /\ msgID = ""
    /\ packet = [src |-> "", malformed |-> FALSE, UUID |-> "", Matches |-> << >>]
    /\ nRead = 0
    /\ gBad = 0
    /\ gNow = 0
    /\ transmitters = << >>
    /\ gResult = << >>
    /\ gErr = ""

\* GetIPsOnNetwork has not been called
IdleIPs ==
    /\ nCidr = [ip |-> <<0, 0, 0, 0>>, bits |-> 0]
    /\ nP = [ip |-> <<0, 0, 0, 0>>, bits |-> 0]
    /\ nAddr = <<0, 0, 0, 0>>
    /\ nIps = << >>
    /\ npc = "idle"

\* no digest is being computed
IdleDigest ==
    /\ hIn = << >>
    /\ hpc = "idle"
    /\ hBlocks = << >>
    /\ hW = << >>
    /\ hT = 0
    /\ hReg = << >>
    /\ hH = << >>
    /\ hOut = << >>

Init == InitRun /\ IdleScan /\ IdleDiscovery /\ IdleIPs /\ IdleDigest

(***************************************************************************)
(* scan.GetDevicesOnNetwork                                                *)
(***************************************************************************)
\* scan.go:17-21  enumerate the private IPv4 interfaces
GetInterfaces ==
    /\ status = "running"
    /\ pc = "start"
    /\ \E ok \in BOOLEAN, ifs \in SUBSET IFaces :
         IF ok
         THEN /\ ifaces' = ifs
              /\ todo' = ifs
              /\ pc' = "discovery"
              /\ UNCHANGED <<status, runErr, devices>>
         ELSE /\ ReturnError("error getting IP4 interfaces")
              /\ UNCHANGED <<ifaces, todo>>
    /\ UNCHANGED <<confVars, discErr, candVars, loopVars, d, ppc, profVars, retVars,
                   reqs, now, found>>
    /\ UNCHANGED auxVars

\* the errors GetONVIFVideoTransmitters returns (discovery.go:79, 89, 94, 99, 106, 110, 124)
DiscoveryErrors ==
    { "unable to starting discovery listen", "unable to find interface",
      "unable to join multicast group", "unable to set multicast interface",
      "unable to send discovery probe", "unable to set read deadline",
      "error reading discovery response" }

\* the endpoint lists GetONVIFVideoTransmitters returns
DiscoveryResults ==
    UNION { [1..n -> Discoverable] : n \in 0..MaxDisc }

\* scan.go:25-35  one iteration of the range over ifaces (map order is arbitrary)
Discover ==
    /\ status = "running"
    /\ pc = "discovery"
    /\ \E iface \in todo :
         \E err \in DiscoveryErrors \cup {""}, ifaceCandidates \in DiscoveryResults :
           /\ discErr' = err
           /\ IF err # ""
              THEN /\ ReturnError("error finding candidates via ws discovery")
                   /\ UNCHANGED <<todo, candidates>>
              ELSE /\ candidates' = candidates \o ifaceCandidates
                   /\ todo' = todo \ {iface}
                   /\ UNCHANGED runVars
    /\ UNCHANGED <<confVars, ifaces, portCandidates, loopVars, d, ppc, profVars,
                   retVars, reqs, now, found>>
    /\ UNCHANGED auxVars

\* scan.go:37-48  the port scan, the merge of its result, and the empty seen-set.
\* FindHostsWithOpenPort (scan.go:97-145) returns the open candidates in the
\* order its tasks appended them, or panics when a dial reports too many open files.
Scan ==
    /\ status = "running"
    /\ pc = "discovery"
    /\ todo = {}
    /\ \E exhausted \in BOOLEAN, open \in SUBSET ScanCandidates(ifaces, DefaultPort) :
         \E hosts \in Orderings(open) :
           IF exhausted /\ ScanCandidates(ifaces, DefaultPort) # {}
           THEN /\ Panic("panic: too many open files")
                /\ UNCHANGED <<candVars, seen, idx>>
           ELSE /\ portCandidates' = hosts
                /\ candidates' = candidates \o
                       [i \in 1..Len(hosts) |-> DeviceServiceURL(hosts[i])]
                /\ seen' = {}
                /\ idx' = 1
                /\ pc' = "probe"
                /\ UNCHANGED <<status, runErr, devices>>
    /\ UNCHANGED <<confVars, discVars, probeCount, d, ppc, profVars, retVars,
                   reqs, now, found>>
    /\ UNCHANGED auxVars

\* mutant: the seen-set is never consulted
AlreadySeen_Never(c) == FALSE

\* scan.go:53  seen[candidate]
AlreadySeen(c) == c \in seen

\* scan.go:51-60  the head of one loop iteration: skip a seen candidate, or
\* mark it, build its Device and call Probe (whose locals and results start fresh)
NextCandidate ==
    /\ status = "running"
    /\ pc = "probe"
    /\ ppc = "idle"
    /\ idx <= Len(candidates)
    /\ LET candidate == candidates[idx] IN
         IF AlreadySeen(candidate)
         THEN /\ idx' = idx + 1
              /\ UNCHANGED <<seen, probeCount, d, ppc, reqs, profVars, retVars>>
         ELSE /\ seen' = seen \cup {candidate}
              /\ d' = NewDevice(candidate, username, password)
              /\ probeCount' = [probeCount EXCEPT ![candidate] = @ + 1]
              /\ ppc' = "GetCapabilities"
              /\ reqs' = << >>
              /\ profiles' = << >>
              /\ pi' = 1
              /\ retValid' = FALSE
              /\ retErr' = ""
              /\ UNCHANGED idx
    /\ UNCHANGED <<runVars, confVars, discVars, candVars, now, found>>
    /\ UNCHANGED auxVars

\* mutant: the devices found are returned
Finish_ReturnsFound ==
    /\ status = "running"
    /\ pc = "probe"
    /\ ppc = "idle"
    /\ idx > Len(candidates)
    /\ status' = "returned"
    /\ devices' = found
    /\ UNCHANGED <<pc, runErr, confVars, discVars, candVars, loopVars, d, ppc, profVars,
                   retVars, reqs, now, found>>
    /\ UNCHANGED auxVars

\* scan.go:92-94  the loop is over: return nil, nil
Finish ==
    /\ status = "running"
    /\ pc = "probe"
    /\ ppc = "idle"
    /\ idx > Len(candidates)
    /\ status' = "returned"
    /\ devices' = << >>
    /\ UNCHANGED <<pc, runErr, confVars, discVars, candVars, loopVars, d, ppc, profVars,
                   retVars, reqs, now, found>>
    /\ UNCHANGED auxVars

(***************************************************************************)
(* Device.Probe, one request per step                                      *)
(***************************************************************************)
\* mutant: the media address is not required
NoMediaAddress_Never(media) == FALSE

\* device.go:197  capabilities.Media.Address == ""
NoMediaAddress(media) == media = ""

\* device.go:191-200 with GetCapabilities (232-241)
ProbeGetCapabilities ==
    /\ status = "running"
    /\ pc = "probe"
    /\ ppc = "GetCapabilities"
    /\ \E r \in Responses, media \in MediaAddrs :
         LET out == makeRequest(r) IN
         /\ Issue("GetCapabilities", d.Address, "", out, media)
         /\ CASE out = "panic" ->
                   /\ Panic("panic: slice bounds out of range")
                   /\ UNCHANGED <<d, ppc, retVars>>
              [] out = "err" ->
                   /\ Return(FALSE, "failed to get capabilities")
                   /\ UNCHANGED <<d, runVars>>
              [] out = "ok" /\ NoMediaAddress(media) ->
                   /\ Return(FALSE, "no media address found in capabilities")
                   /\ UNCHANGED <<d, runVars>>
              [] OTHER ->
                   /\ d' = [d EXCEPT !.Capabilities = [Media |-> media]]
                   /\ ppc' = "GetSystemDateAndTime"
                   /\ UNCHANGED <<runVars, retVars>>
    /\ UNCHANGED <<confVars, discVars, candVars, loopVars, profVars, found>>
    /\ UNCHANGED auxVars

\* device.go:202-208 with GetSystemDateAndTime (245-265).  The device reads
\* its clock, skewed against ours, when the request arrives; time.Since is
\* taken after the response.
ProbeGetSystemDateAndTime ==
    /\ status = "running"
    /\ pc = "probe"
    /\ ppc = "GetSystemDateAndTime"
    /\ \E r \in Responses, skew \in Skews :
         LET out == makeRequest(r)
             deviceTime == now + skew
         IN
         /\ Issue("GetSystemDateAndTime", d.Address, "", out, "")
         /\ CASE out = "panic" ->
                   /\ Panic("panic: slice bounds out of range")
                   /\ UNCHANGED <<d, ppc, retVars>>
              [] out = "err" ->
                   /\ Return(FALSE, "failed to get system date and time")
                   /\ UNCHANGED <<d, runVars>>
              [] OTHER ->
                   /\ d' = [d EXCEPT !.ClockOffset = -(now' - deviceTime)]
                   /\ ppc' = "GetDeviceInformation"
                   /\ UNCHANGED <<runVars, retVars>>
    /\ UNCHANGED <<confVars, discVars, candVars, loopVars, profVars, found>>
    /\ UNCHANGED auxVars

\* mutant: Probe goes on to the profiles although the identity request failed
ProbeGetDeviceInformation_IgnoresError ==
    /\ status = "running"
    /\ pc = "probe"
    /\ ppc = "GetDeviceInformation"
    /\ \E r \in Responses, m \in Manufacturers :
         LET out == makeRequest(r) IN
         /\ Issue("GetDeviceInformation", d.Address, "", out, m)
         /\ CASE out = "panic" ->
                   /\ Panic("panic: slice bounds out of range")
                   /\ UNCHANGED <<d, ppc, retVars>>
              [] out = "err" ->
                   /\ ppc' = "GetProfiles"
                   /\ UNCHANGED <<d, runVars, retVars>>
              [] OTHER ->
                   /\ d' = [d EXCEPT !.DeviceInformation = [Manufacturer |-> m]]
                   /\ ppc' = "GetProfiles"
                   /\ UNCHANGED <<runVars, retVars>>
    /\ UNCHANGED <<confVars, discVars, candVars, loopVars, profVars, found>>
    /\ UNCHANGED auxVars

\* device.go:210-215 with GetDeviceInformation (269-279)
ProbeGetDeviceInformation ==
    /\ status = "running"
    /\ pc = "probe"
    /\ ppc = "GetDeviceInformation"
    /\ \E r \in Responses, m \in Manufacturers :
         LET out == makeRequest(r) IN
         /\ Issue("GetDeviceInformation", d.Address, "", out, m)
         /\ CASE out = "panic" ->
                   /\ Panic("panic: slice bounds out of range")
                   /\ UNCHANGED <<d, ppc, retVars>>
              [] out = "err" ->
                   /\ Return(TRUE, "failed to get device information")
                   /\ UNCHANGED <<d, runVars>>
              [] OTHER ->
                   /\ d' = [d EXCEPT !.DeviceInformation = [Manufacturer |-> m]]
                   /\ ppc' = "GetProfiles"
                   /\ UNCHANGED <<runVars, retVars>>
    /\ UNCHANGED <<confVars, discVars, candVars, loopVars, profVars, found>>
    /\ UNCHANGED auxVars

\* the token of the i-th profile a device lists
Token(i) == "Profile" \o ToString(i)

\* device.go:217-218 with the first request of GetProfiles (167-175); a
\* response without profiles ends GetProfiles and Probe (186-187, 222-224)
ProbeGetProfiles ==
    /\ status = "running"
    /\ pc = "probe"
    /\ ppc = "GetProfiles"
    /\ \E r \in Responses, n \in 0..MaxProfiles :
         LET out == makeRequest(r)
             listed == [i \in 1..n |-> [Token |-> Token(i), URI |-> "", Streams |-> ""]]
         IN
         /\ Issue("GetProfiles", d.Capabilities.Media, "", out, "")
         /\ CASE out = "panic" ->
                   /\ Panic("panic: slice bounds out of range")
                   /\ UNCHANGED <<d, ppc, retVars, profVars>>
              [] out = "err" ->
                   /\ Return(TRUE, "failed to make request")
                   /\ UNCHANGED <<d, runVars, profVars>>
              [] out = "ok" /\ n = 0 ->
                   /\ profiles' = listed
                   /\ pi' = 1
                   /\ d' = [d EXCEPT !.Profiles = listed]
                   /\ Return(TRUE, "")
                   /\ UNCHANGED runVars
              [] OTHER ->
                   /\ profiles' = listed
                   /\ pi' = 1
                   /\ ppc' = "GetStreamUri"
                   /\ UNCHANGED <<d, runVars, retVars>>
    /\ UNCHANGED <<confVars, discVars, candVars, loopVars, found>>
    /\ UNCHANGED auxVars

\* mutant: a failed stream-URI request ends GetProfiles with the profiles
\* resolved so far and no error
ProbeGetStreamUri_PartialSuccess ==
    /\ status = "running"
    /\ pc = "probe"
    /\ ppc = "GetStreamUri"
    /\ \E r \in Responses, uri \in URIs :
         LET out == makeRequest(r)
             resolved == [profiles EXCEPT ![pi].URI = uri]
         IN
         /\ Issue("GetStreamUri", d.Capabilities.Media, profiles[pi].Token, out, uri)
         /\ CASE out = "panic" ->
                   /\ Panic("panic: slice bounds out of range")
                   /\ UNCHANGED <<d, ppc, retVars, profVars>>
              [] out = "err" ->
                   /\ d' = [d EXCEPT !.Profiles = SubSeq(profiles, 1, pi - 1)]
                   /\ Return(TRUE, "")
                   /\ UNCHANGED <<runVars, profVars>>
              [] out = "ok" /\ pi = Len(profiles) ->
                   /\ profiles' = resolved
                   /\ pi' = pi + 1
                   /\ d' = [d EXCEPT !.Profiles = resolved]
                   /\ Return(TRUE, "")
                   /\ UNCHANGED runVars
              [] OTHER ->
                   /\ profiles' = resolved
                   /\ pi' = pi + 1
                   /\ UNCHANGED <<d, runVars, ppc, retVars>>
    /\ UNCHANGED <<confVars, discVars, candVars, loopVars, found>>
    /\ UNCHANGED auxVars

\* device.go:176-187, 219-224  one iteration of the range over profiles; the
\* last one ends GetProfiles and Probe stores the list
ProbeGetStreamUri ==
    /\ status = "running"
    /\ pc = "probe"
    /\ ppc = "GetStreamUri"
    /\ \E r \in Responses, uri \in URIs :
         LET out == makeRequest(r)
             resolved == [profiles EXCEPT ![pi].URI = uri]
         IN
         /\ Issue("GetStreamUri", d.Capabilities.Media, profiles[pi].Token, out, uri)
         /\ CASE out = "panic" ->
                   /\ Panic("panic: slice bounds out of range")
                   /\ UNCHANGED <<d, ppc, retVars, profVars>>
              [] out = "err" ->
                   /\ Return(TRUE, "failed to make request")
                   /\ UNCHANGED <<d, runVars, profVars>>
              [] out = "ok" /\ pi = Len(profiles) ->
                   /\ profiles' = resolved
                   /\ pi' = pi + 1
                   /\ d' = [d EXCEPT !.Profiles = resolved]
                   /\ Return(TRUE, "")
                   /\ UNCHANGED runVars
              [] OTHER ->
                   /\ profiles' = resolved
                   /\ pi' = pi + 1
                   /\ UNCHANGED <<d, runVars, ppc, retVars>>
    /\ UNCHANGED <<confVars, discVars, candVars, loopVars, found>>
    /\ UNCHANGED auxVars

(***************************************************************************)
(* scan.GetDevicesOnNetwork: what the loop does with Probe's result        *)
(***************************************************************************)
\* scan.go:71  url.Parse(profile.URI) returns a nil URL for these
URLParses(uri) == uri # BadURI

\* scan.go:84-91  the fields of the "onvif device found" line
LogLine(dev) ==
    [ address      |-> dev.Address,
      manufacturer |-> dev.DeviceInformation.Manufacturer,
      profiles     |-> [i \in DOMAIN dev.Profiles |-> dev.Profiles[i].URI] ]

\* scan.go:61-92  drop the candidate on an error or when not valid; else
\* inspect every profile's stream and log the device.  The error of
\* url.Parse is dropped, so a URI that does not parse leaves uri nil and
\* uri.User = ... (73) or uri.String() (75) dereferences it.
HandleProbe ==
    /\ status = "running"
    /\ pc = "probe"
    /\ ppc = "ret"
    /\ CASE retErr # "" ->
              /\ idx' = idx + 1
              /\ ppc' = "idle"
              /\ UNCHANGED <<runVars, d, found>>
         [] retErr = "" /\ ~retValid ->
              /\ idx' = idx + 1
              /\ ppc' = "idle"
              /\ UNCHANGED <<runVars, d, found>>
         [] retErr = "" /\ retValid
              /\ (\E i \in DOMAIN d.Profiles : ~URLParses(d.Profiles[i].URI)) ->
              /\ Panic("panic: nil pointer dereference")
              /\ UNCHANGED <<idx, ppc, d, found>>
         [] OTHER ->
              \E streams \in [DOMAIN d.Profiles -> {"", "h264"}] :
                /\ d' = [d EXCEPT !.Profiles =
                           [i \in DOMAIN d.Profiles |->
                              [d.Profiles[i] EXCEPT !.Streams = streams[i]]]]
                /\ found' = Append(found, LogLine(d'))
                /\ idx' = idx + 1
                /\ ppc' = "idle"
                /\ UNCHANGED runVars
    /\ UNCHANGED <<confVars, discVars, candVars, seen, probeCount, profVars, retVars,
                   reqs, now>>
    /\ UNCHANGED auxVars

Next ==
    \/ GetInterfaces
    \/ Discover
    \/ Scan
    \/ NextCandidate
    \/ Finish
    \/ ProbeGetCapabilities
    \/ ProbeGetSystemDateAndTime
    \/ ProbeGetDeviceInformation
    \/ ProbeGetProfiles
    \/ ProbeGetStreamUri
    \/ HandleProbe

Spec == Init /\ [][Next]_allVars

\* the run of GetDevicesOnNetwork stays where main left it
QuietRun == InitRun /\ username = ""

(***************************************************************************)
(* strings                                                                 *)
(***************************************************************************)
\* strings.Contains
StrContains(str, substr) ==
    \E i \in 1..(Len(str) - Len(substr) + 1) :
        SubSeq(str, i, i + Len(substr) - 1) = substr

(***************************************************************************)
(* network.IsPortOpen (part_000:61-73)                                     *)
(***************************************************************************)
\* what net.DialTimeout can give: nil ("") or the text of its error
DialErrors ==
    { "",
      "dial tcp: connect: connection refused",
      "dial tcp: i/o timeout",
      "dial tcp: socket: too many open files" }

\* mutant: every dial error is passed on to the caller
IsPortOpen_AnyErrorFatal(address, err) ==
    IF err # ""
    THEN <<FALSE, "error opening " \o address \o ": " \o err>>
    ELSE <<TRUE, "">>

\* part_000:61-73  the pair (open, error text) for what the dial gave
IsPortOpen(address, err) ==
    IF err # ""
    THEN IF StrContains(err, "too many open files")
         THEN <<FALSE, "error opening " \o address \o ": " \o err>>
         ELSE <<FALSE, "">>
    ELSE <<TRUE, "">>

(***************************************************************************)
(* GetIPsOnNetwork called on its own (part_000:40-58).                     *)
(***************************************************************************)
\* addresses an interface can carry, the last ones of the address space included
HostAddrs ==
    { <<192, 168, 1, 0>>, <<192, 168, 1, 1>>, <<192, 168, 1, 77>>, <<192, 168, 1, 128>>,
      <<192, 168, 1, 255>>, <<10, 0, 0, 5>>, <<10, 0, 255, 254>>, <<172, 16, 255, 130>>,
      <<169, 254, 0, 63>>, <<255, 255, 255, 0>>, <<255, 255, 255, 200>>,
      <<255, 255, 255, 255>> }

\* the mask lengths of prefixes with at most 256 addresses
MaskLengths == 24..32

InitIPs ==
    /\ QuietRun /\ IdleScan /\ IdleDiscovery /\ IdleDigest
    /\ nCidr \in [ip : HostAddrs, bits : MaskLengths]
    /\ nP = [ip |-> <<0, 0, 0, 0>>, bits |-> 0]
    /\ nAddr = <<0, 0, 0, 0>>
    /\ nIps = << >>
    /\ npc = "called"

\* part_000:41-49  the prefix is masked, the list empty, addr the prefix's address
IPsEnter ==
    /\ npc = "called"
    /\ nP' = Masked(nCidr)
    /\ nIps' = << >>
    /\ nAddr' = Masked(nCidr).ip
    /\ npc' = "loop"
    /\ UNCHANGED nCidr

\* part_000:50-56  one turn of the loop: addr is in the prefix, is appended and stepped
IPsStep ==
    /\ npc = "loop"
    /\ Contains(nP, nAddr)
    /\ nIps' = Append(nIps, AddrString(nAddr))
    /\ nAddr' = AddrNext(nAddr)
    /\ UNCHANGED <<nCidr, nP, npc>>

\* part_000:51-53, 57  addr has left the prefix: break, return ips
IPsReturn ==
    /\ npc = "loop"
    /\ ~Contains(nP, nAddr)
    /\ npc' = "returned"
    /\ UNCHANGED <<nCidr, nP, nAddr, nIps>>

\* part_000:40-58, one step of it
GetIPsOnNetworkStep == IPsEnter \/ IPsStep \/ IPsReturn

NextIPs ==
    \/ IPsEnter /\ UNCHANGED <<vars, scanVars, discoVars, digestVars>>
    \/ IPsStep /\ UNCHANGED <<vars, scanVars, discoVars, digestVars>>
    \/ IPsReturn /\ UNCHANGED <<vars, scanVars, discoVars, digestVars>>

IPSpec == InitIPs /\ [][NextIPs]_allVars

(***************************************************************************)
(* FindHostsWithOpenPort (scan.go:97-145).                                 *)
(***************************************************************************)
\* scan.go:102-103  the range loop takes an interface, in the map's order,
\* and calls GetIPsOnNetwork with its CIDR
FCallIPs(i) ==
    /\ fpc = "collect"
    /\ npc = "idle"
    /\ i \in fTodo
    /\ fTodo' = fTodo \ {i}
    /\ nCidr' = fIfaces[i]
    /\ npc' = "called"
    /\ UNCHANGED <<fIfaces, fCands, fpc, task, dialErr, tmp, keepers, mu, fResult>>
    /\ UNCHANGED <<nP, nAddr, nIps>>

\* mutant: the host list is taken whatever its length
FCollected_NoLimit ==
    /\ fpc = "collect"
    /\ npc = "returned"
    /\ fCands' = fCands \cup { HostPort(ip, DefaultPort) : ip \in Range(nIps) }
    /\ npc' = "idle"
    /\ UNCHANGED <<fIfaces, fTodo, fpc, task, dialErr, tmp, keepers, mu, fResult>>
    /\ UNCHANGED <<nCidr, nP, nAddr, nIps>>

\* scan.go:107-121  a list of at most 256 addresses is added to the candidates
\* map as "ip:port" keys, a longer one is ignored
FCollected ==
    /\ fpc = "collect"
    /\ npc = "returned"
    /\ fCands' = IF Len(nIps) <= ScanLimit
                 THEN fCands \cup { HostPort(ip, DefaultPort) : ip \in Range(nIps) }
                 ELSE fCands
    /\ npc' = "idle"
    /\ UNCHANGED <<fIfaces, fTodo, fpc, task, dialErr, tmp, keepers, mu, fResult>>
    /\ UNCHANGED <<nCidr, nP, nAddr, nIps>>

\* scan.go:124-126  the interfaces are done: wait group, empty keepers, mutex
FStartTasks ==
    /\ fpc = "collect"
    /\ npc = "idle"
    /\ fTodo = {}
    /\ fpc' = "spawn"
    /\ task' = [c \in fCands |-> "unspawned"]
    /\ dialErr' = [c \in fCands |-> "undialed"]
    /\ tmp' = [c \in fCands |-> << >>]
    /\ keepers' = << >>
    /\ mu' = ""
    /\ UNCHANGED <<fIfaces, fTodo, fCands, fResult, ipVars>>

\* scan.go:128-129  wg.Go starts the task of one candidate, in the map's order
FSpawn(c) ==
    /\ fpc = "spawn"
    /\ task[c] = "unspawned"
    /\ task' = [task EXCEPT ![c] = "dial"]
    /\ UNCHANGED <<fIfaces, fTodo, fCands, fpc, dialErr, tmp, keepers, mu, fResult, ipVars>>

\* scan.go:130-136  the task dials: an error of IsPortOpen makes it panic (the
\* wait group keeps the panic), a closed port ends it, an open one goes on
FDial(c) ==
    /\ fpc = "spawn"
    /\ task[c] = "dial"
    /\ \E e \in DialErrors :
         /\ dialErr' = [dialErr EXCEPT ![c] = e]
         /\ task' = [task EXCEPT ![c] =
                        IF IsPortOpen(c, e)[2] # "" THEN "panicked"
                        ELSE IF IsPortOpen(c, e)[1] THEN "lock" ELSE "done"]
    /\ UNCHANGED <<fIfaces, fTodo, fCands, fpc, tmp, keepers, mu, fResult, ipVars>>

\* mutant: the task goes on without the mutex
FLock_NoMutex(c) ==
    /\ fpc = "spawn"
    /\ task[c] = "lock"
    /\ task' = [task EXCEPT ![c] = "read"]
    /\ UNCHANGED <<fIfaces, fTodo, fCands, fpc, dialErr, tmp, keepers, mu, fResult, ipVars>>

\* scan.go:137  mu.Lock()
FLock(c) ==
    /\ fpc = "spawn"
    /\ task[c] = "lock"
    /\ mu = ""
    /\ mu' = c
    /\ task' = [task EXCEPT ![c] = "read"]
    /\ UNCHANGED <<fIfaces, fTodo, fCands, fpc, dialErr, tmp, keepers, fResult, ipVars>>

\* scan.go:138  append(keepers, candidate): the slice is read
FRead(c) ==
    /\ fpc = "spawn"
    /\ task[c] = "read"
    /\ tmp' = [tmp EXCEPT ![c] = keepers]
    /\ task' = [task EXCEPT ![c] = "write"]
    /\ UNCHANGED <<fIfaces, fTodo, fCands, fpc, dialErr, keepers, mu, fResult, ipVars>>

\* scan.go:138  keepers = ...: the longer slice is stored
FWrite(c) ==
    /\ fpc = "spawn"
    /\ task[c] = "write"
    /\ keepers' = Append(tmp[c], c)
    /\ task' = [task EXCEPT ![c] = "unlock"]
    /\ UNCHANGED <<fIfaces, fTodo, fCands, fpc, dialErr, tmp, mu, fResult, ipVars>>

\* scan.go:139  mu.Unlock(), and the task ends
FUnlock(c) ==
    /\ fpc = "spawn"
    /\ task[c] = "unlock"
    /\ mu' = ""
    /\ task' = [task EXCEPT ![c] = "done"]
    /\ UNCHANGED <<fIfaces, fTodo, fCands, fpc, dialErr, tmp, keepers, fResult, ipVars>>

\* mutant: wg.Wait() drops the panic of a task and the slice is returned
FWait_PanicDropped ==
    /\ fpc = "spawn"
    /\ \A c \in fCands : task[c] \in {"done", "panicked"}
    /\ fpc' = "returned"
    /\ fResult' = keepers
    /\ UNCHANGED <<fIfaces, fTodo, fCands, task, dialErr, tmp, keepers, mu, ipVars>>

\* scan.go:143-144  wg.Wait() returns when every task started has ended, and
\* panics again with the panic of a task if there was one; else keepers is returned
FWait ==
    /\ fpc = "spawn"
    /\ \A c \in fCands : task[c] \in {"done", "panicked"}
    /\ IF \E c \in fCands : task[c] = "panicked"
       THEN fpc' = "panicked" /\ UNCHANGED fResult
       ELSE fpc' = "returned" /\ fResult' = keepers
    /\ UNCHANGED <<fIfaces, fTodo, fCands, task, dialErr, tmp, keepers, mu, ipVars>>

\* FindHostsWithOpenPort is entered with the given interfaces
EnterScan(configs) ==
    /\ QuietRun /\ IdleDiscovery /\ IdleIPs /\ IdleDigest
    /\ fIfaces \in configs
    /\ fTodo = DOMAIN fIfaces
    /\ fCands = {}
    /\ fpc = "collect"
    /\ task = << >>
    /\ dialErr = << >>
    /\ tmp = << >>
    /\ keepers = << >>
    /\ mu = ""
    /\ fResult = << >>

\* all functions from a set of interfaces to the given CIDRs
IFaceMaps(cidrs) == UNION { [S -> cidrs] : S \in SUBSET IFaces }

\* interfaces on very small networks, so that every interleaving of the tasks is met
SmallCIDRs ==
    { [ip |-> <<192, 168, 1, 1>>, bits |-> 31],
      [ip |-> <<192, 168, 1, 0>>, bits |-> 31],
      [ip |-> <<192, 168, 1, 2>>, bits |-> 32] }

InitDial == EnterScan(IFaceMaps(SmallCIDRs))

NextDial ==
    \/ \E i \in IFaces : FCallIPs(i) /\ UNCHANGED <<vars, discoVars, digestVars>>
    \/ GetIPsOnNetworkStep /\ UNCHANGED <<vars, scanVars, discoVars, digestVars>>
    \/ FCollected /\ UNCHANGED <<vars, discoVars, digestVars>>
    \/ FStartTasks /\ UNCHANGED <<vars, discoVars, digestVars>>
    \/ \E c \in fCands : FSpawn(c) /\ UNCHANGED <<vars, discoVars, digestVars>>
    \/ \E c \in fCands : FDial(c) /\ UNCHANGED <<vars, discoVars, digestVars>>
    \/ \E c \in fCands : FLock(c) /\ UNCHANGED <<vars, discoVars, digestVars>>
    \/ \E c \in fCands : FRead(c) /\ UNCHANGED <<vars, discoVars, digestVars>>
    \/ \E c \in fCands : FWrite(c) /\ UNCHANGED <<vars, discoVars, digestVars>>
    \/ \E c \in fCands : FUnlock(c) /\ UNCHANGED <<vars, discoVars, digestVars>>
    \/ FWait /\ UNCHANGED <<vars, discoVars, digestVars>>

DialSpec == InitDial /\ [][NextDial]_allVars

\* interfaces on networks of 512, 256, 4 and 2 addresses; the second and the
\* last one lie inside the first
WideCIDRs ==
    { [ip |-> <<192, 168, 0, 5>>, bits |-> 23],
      [ip |-> <<192, 168, 1, 7>>, bits |-> 24],
      [ip |-> <<10, 0, 0, 1>>, bits |-> 30],
      [ip |-> <<192, 168, 0, 9>>, bits |-> 31] }

\* the hosts that accept a connection on the port, when they are dialed
Listening == { "192.168.1.1:80", "192.168.0.9:80", "192.168.0.200:80", "10.0.0.1:80" }

\* scan.go:128-144  all tasks at once, for candidate sets too large to
\* interleave: every candidate is dialed, the listening hosts among them may
\* answer, one of them may instead meet the descriptor limit, the others are
\* refused; the open ones are appended in some order and FindHostsWithOpenPort
\* returns them, or panics
FRunTasks ==
    /\ fpc = "spawn"
    /\ \E open \in SUBSET (Listening \cap fCands) :
         \E x \in {{}} \cup { {c} : c \in (Listening \cap fCands) \ open } :
           LET e == [c \in fCands |->
                        IF c \in open THEN ""
                        ELSE IF c \in x THEN "dial tcp: socket: too many open files"
                        ELSE "dial tcp: connect: connection refused"]
               failed == { c \in fCands : IsPortOpen(c, e[c])[2] # "" }
           IN  /\ dialErr' = e
               /\ task' = [c \in fCands |-> IF c \in failed THEN "panicked" ELSE "done"]
               /\ keepers' \in Orderings({ c \in fCands : IsPortOpen(c, e[c])[1] })
               /\ IF failed # {}
                  THEN fpc' = "panicked" /\ UNCHANGED fResult
                  ELSE fpc' = "returned" /\ fResult' = keepers'
    /\ UNCHANGED <<fIfaces, fTodo, fCands, tmp, mu, ipVars>>

InitScan == EnterScan(IFaceMaps(WideCIDRs))

NextScan ==
    \/ \E i \in IFaces : FCallIPs(i) /\ UNCHANGED <<vars, discoVars, digestVars>>
    \/ GetIPsOnNetworkStep /\ UNCHANGED <<vars, scanVars, discoVars, digestVars>>
    \/ FCollected /\ UNCHANGED <<vars, discoVars, digestVars>>
    \/ FStartTasks /\ UNCHANGED <<vars, discoVars, digestVars>>
    \/ FRunTasks /\ UNCHANGED <<vars, discoVars, digestVars>>

ScanSpec == InitScan /\ [][NextScan]_allVars

(***************************************************************************)
(* net/url, for absolute URLs scheme://host[:port]/path with an IPv4 host. *)
(***************************************************************************)
\* strings.Index, counted from 1; 0 when substr does not occur
IndexOf(str, substr) ==
    IF StrContains(str, substr)
    THEN CHOOSE i \in 1..(Len(str) - Len(substr) + 1) :
           /\ SubSeq(str, i, i + Len(substr) - 1) = substr
           /\ \A j \in 1..(i - 1) : SubSeq(str, j, j + Len(substr) - 1) # substr
    ELSE 0

\* the part of str after its first n characters
Drop(str, n) == SubSeq(str, n + 1, Len(str))

Digits == {"0", "1", "2", "3", "4", "5", "6", "7", "8", "9"}

\* url.URL.Port: the digits after the colon of Host, "" without a colon
URLPort(host) ==
    IF IndexOf(host, ":") = 0 THEN "" ELSE Drop(host, IndexOf(host, ":"))

\* url.Parse: scheme, host (with port) and path; it fails on a port that is
\* not a number
ParseURL(raw) ==
    LET scheme == SubSeq(raw, 1, IndexOf(raw, "://") - 1)
        rest   == Drop(raw, IndexOf(raw, "://") + 2)
        slash  == IndexOf(rest, "/")
        host   == IF slash = 0 THEN rest ELSE SubSeq(rest, 1, slash - 1)
        path   == IF slash = 0 THEN "" ELSE Drop(rest, slash - 1)
    IN  [ ok     |-> \A k \in 1..Len(URLPort(host)) :
                        SubSeq(URLPort(host), k, k) \in Digits,
          Scheme |-> scheme,
          Host   |-> host,
          Path   |-> path ]

\* url.URL.String
URLString(u) == u.Scheme \o "://" \o u.Host \o u.Path

(***************************************************************************)
(* GetONVIFVideoTransmitters (discovery.go:67-173).                        *)
(***************************************************************************)
\* discovery.go:175-178  the text of the address up to its first colon
ipFromAddr(addr) ==
    IF IndexOf(addr, ":") = 0 THEN addr ELSE SubSeq(addr, 1, IndexOf(addr, ":") - 1)

\* mutant: every response is taken for an answer to the probe
Correlates_Always(resp, id) == TRUE

\* discovery.go:138  strings.Contains(resp.UUID, msgID)
Correlates(resp, id) == StrContains(resp.UUID, id)

\* mutant: every match record is taken for a video transmitter
IsTransmitter_Always(match) == TRUE

\* discovery.go:145  strings.Contains(match.Types, "NetworkVideoTransmitter")
IsTransmitter(match) == StrContains(match.Types, "NetworkVideoTransmitter")

\* mutant: the advertised host is kept
MatchEndpoint_AdvertisedHost(src, match) ==
    IF ~IsTransmitter(match) \/ ~ParseURL(match.XAddrs).ok THEN << >>
    ELSE << URLString(ParseURL(match.XAddrs)) >>

\* discovery.go:145-167  what one match record adds to transmitters: nothing
\* when it is no transmitter or its XAddrs does not parse, else its URL with
\* the host replaced by the source IP and the port, 80 when it had none
MatchEndpoint(src, match) ==
    IF ~IsTransmitter(match) \/ ~ParseURL(match.XAddrs).ok THEN << >>
    ELSE LET endpoint == ParseURL(match.XAddrs)
             port     == IF URLPort(endpoint.Host) = "" THEN "80" ELSE URLPort(endpoint.Host)
         IN  << URLString([endpoint EXCEPT !.Host = ipFromAddr(src) \o ":" \o port]) >>

\* discovery.go:144-169  the loop over the matches of a response
RECURSIVE MatchEndpoints(_, _)
MatchEndpoints(src, matches) ==
    IF matches = << >> THEN << >>
    ELSE MatchEndpoint(src, Head(matches)) \o MatchEndpoints(src, Tail(matches))

\* discovery.go:130-170  what one packet adds to transmitters
PacketEndpoints(pk, id) ==
    IF pk.malformed THEN << >>
    ELSE IF ~Correlates(pk, id) THEN << >>
    ELSE MatchEndpoints(pk.src, pk.Matches)

\* the identifiers uuid.NewString() can give (shortened)
MsgIDs == {"eccb3c9d-8031"}

\* the UDP sources of packets
Sources == {"10.0.0.5:3702", "192.168.1.1:3702"}

\* the RelatesTo headers of responses: to this probe, to another one, cut short
RelatesTos == {"urn:uuid:eccb3c9d-8031", "urn:uuid:b1fc8184-b342", "uuid:eccb3c9d-803"}

\* the match records of responses
MatchRecords ==
    [ Types  : {"dn:NetworkVideoTransmitter tds:Device", "tds:Device"},
      XAddrs : {"http://10.0.0.99/onvif/device_service",
                "http://10.0.0.99:8080/onvif/device_service",
                "http://10.0.0.99:port/onvif/device_service"} ]

\* the match lists of responses: none, one record, two records of different types
MatchLists ==
    {<< >>} \cup { <<r>> : r \in MatchRecords }
            \cup { <<pair[1], pair[2]>> :
                      pair \in { q \in MatchRecords \X MatchRecords : q[1].Types # q[2].Types } }

\* the packets ReadFrom can deliver: responses, and text that is no XML
Packets ==
    [ src : Sources, malformed : {FALSE}, UUID : RelatesTos, Matches : MatchLists ]
    \cup [ src : Sources, malformed : {TRUE}, UUID : {""}, Matches : {<< >>} ]

\* the errors of the steps before the read loop
SetupErrors ==
    { "unable to starting discovery listen", "unable to find interface",
      "unable to join multicast group", "unable to set multicast interface",
      "unable to send discovery probe", "unable to set read deadline" }

InitDisco ==
    /\ QuietRun /\ IdleScan /\ IdleIPs /\ IdleDigest
    /\ gpc = "setup"
    /\ msgID \in MsgIDs
    /\ packet = [src |-> "", malformed |-> FALSE, UUID |-> "", Matches |-> << >>]
    /\ nRead = 0
    /\ gBad = 0
    /\ gNow = 0
    /\ transmitters = << >>
    /\ gResult = << >>
    /\ gErr = ""

\* discovery.go:77-111  a step before the read loop fails: nil and the error
GSetupFails ==
    /\ gpc = "setup"
    /\ gErr' \in SetupErrors
    /\ gResult' = << >>
    /\ gpc' = "returned"
    /\ UNCHANGED <<msgID, packet, nRead, gBad, gNow, transmitters>>

\* discovery.go:77-115  the probe is sent, the deadline set three seconds
\* from now, transmitters empty
GSend ==
    /\ gpc = "setup"
    /\ transmitters' = << >>
    /\ gNow' = 0
    /\ gpc' = "read"
    /\ UNCHANGED <<msgID, packet, nRead, gBad, gResult, gErr>>

\* a second passes while the loop runs
GTick ==
    /\ gpc = "read"
    /\ gNow < ReadDeadline
    /\ gNow' = gNow + 1
    /\ UNCHANGED <<gpc, msgID, packet, nRead, gBad, transmitters, gResult, gErr>>

\* mutant: the call returns with the first response it has handled
GReadPacket_ReturnsAfterFirst ==
    /\ gpc = "read"
    /\ nRead < MaxPackets
    /\ gNow < ReadDeadline
    /\ \E pk \in Packets :
         /\ packet' = pk
         /\ transmitters' = transmitters \o PacketEndpoints(pk, msgID)
         /\ gBad' = IF pk.malformed THEN nRead + 1 ELSE gBad
    /\ nRead' = nRead + 1
    /\ gpc' = "returned"
    /\ gResult' = transmitters'
    /\ UNCHANGED <<msgID, gNow, gErr>>

\* mutant: a packet that does not unmarshal ends the call with an error
GReadPacket_MalformedFatal ==
    /\ gpc = "read"
    /\ nRead < MaxPackets
    /\ gNow < ReadDeadline
    /\ \E pk \in Packets :
         /\ packet' = pk
         /\ transmitters' = transmitters \o PacketEndpoints(pk, msgID)
         /\ gBad' = IF pk.malformed THEN nRead + 1 ELSE gBad
         /\ gpc' = IF pk.malformed THEN "returned" ELSE gpc
         /\ gErr' = IF pk.malformed THEN "error unmarshalling discovery response" ELSE gErr
    /\ nRead' = nRead + 1
    /\ UNCHANGED <<msgID, gNow, gResult>>

\* discovery.go:117, 128-170  ReadFrom delivers a packet before the deadline
\* and the loop body handles it
GReadPacket ==
    /\ gpc = "read"
    /\ nRead < MaxPackets
    /\ gNow < ReadDeadline
    /\ \E pk \in Packets :
         /\ packet' = pk
         /\ transmitters' = transmitters \o PacketEndpoints(pk, msgID)
         /\ gBad' = IF pk.malformed THEN nRead + 1 ELSE gBad
    /\ nRead' = nRead + 1
    /\ UNCHANGED <<gpc, msgID, gNow, gResult, gErr>>

\* discovery.go:117, 128-135  the packets that keep arriving after those
\* counted, here text that is no XML: each is read, logged and skipped
GReadIgnored ==
    /\ gpc = "read"
    /\ nRead = MaxPackets
    /\ gNow < ReadDeadline
    /\ \E pk \in { q \in Packets : q.malformed } :
         /\ packet' = pk
         /\ transmitters' = transmitters \o PacketEndpoints(pk, msgID)
    /\ UNCHANGED <<gpc, msgID, nRead, gBad, gNow, gResult, gErr>>

\* discovery.go:119-121, 172  the deadline has passed: ReadFrom fails with
\* os.ErrDeadlineExceeded, break, return transmitters
GReadDeadline ==
    /\ gpc = "read"
    /\ gNow >= ReadDeadline
    /\ gResult' = transmitters
    /\ gErr' = ""
    /\ gpc' = "returned"
    /\ UNCHANGED <<msgID, packet, nRead, gBad, gNow, transmitters>>

\* discovery.go:122-125  any other read error: nil and the error
GReadError ==
    /\ gpc = "read"
    /\ gResult' = << >>
    /\ gErr' = "error reading discovery response"
    /\ gpc' = "returned"
    /\ UNCHANGED <<msgID, packet, nRead, gBad, gNow, transmitters>>

\* the clock, as a step of the whole state
Tick == GTick /\ UNCHANGED <<vars, scanVars, ipVars, digestVars>>

NextDisco ==
    \/ GSetupFails /\ UNCHANGED <<vars, scanVars, ipVars, digestVars>>
    \/ GSend /\ UNCHANGED <<vars, scanVars, ipVars, digestVars>>
    \/ Tick
    \/ GReadPacket /\ UNCHANGED <<vars, scanVars, ipVars, digestVars>>
    \/ GReadIgnored /\ UNCHANGED <<vars, scanVars, ipVars, digestVars>>
    \/ GReadDeadline /\ UNCHANGED <<vars, scanVars, ipVars, digestVars>>
    \/ GReadError /\ UNCHANGED <<vars, scanVars, ipVars, digestVars>>

DiscoSpec == InitDisco /\ [][NextDisco]_allVars

\* the same, where time passes and the call is not suspended for ever
DiscoLiveSpec ==
    InitDisco /\ [][NextDisco]_allVars /\ WF_allVars(Tick) /\ WF_allVars(NextDisco)

(***************************************************************************)
(* 32-bit words, as the pair of their upper and lower 16 bits.             *)
(***************************************************************************)
RECURSIVE Xor16(_, _, _)
Xor16(a, b, n) ==
    IF n = 0 THEN 0 ELSE ((a + b) % 2) + 2 * Xor16(a \div 2, b \div 2, n - 1)

RECURSIVE And16(_, _, _)
And16(a, b, n) ==
    IF n = 0 THEN 0 ELSE ((a % 2) * (b % 2)) + 2 * And16(a \div 2, b \div 2, n - 1)

WXor(a, b) == << Xor16(a[1], b[1], 16), Xor16(a[2], b[2], 16) >>
WAnd(a, b) == << And16(a[1], b[1], 16), And16(a[2], b[2], 16) >>
WOr(a, b)  == << a[1] + b[1] - And16(a[1], b[1], 16), a[2] + b[2] - And16(a[2], b[2], 16) >>
WNot(a)    == << 65535 - a[1], 65535 - a[2] >>

\* addition modulo 2^32
WAdd(a, b) ==
    << (a[1] + b[1] + ((a[2] + b[2]) \div 65536)) % 65536, (a[2] + b[2]) % 65536 >>

\* rotation to the left by n bits, 0 < n < 16
Rotl(a, n) ==
    << ((a[1] * 2^n) % 65536) + (a[2] \div 2^(16 - n)),
       ((a[2] * 2^n) % 65536) + (a[1] \div 2^(16 - n)) >>

\* rotation to the left by 30 bits
Rotl30(a) == Rotl(<< a[2], a[1] >>, 14)

(***************************************************************************)
(* bytes of strings, base64                                                *)
(***************************************************************************)
\* the characters of nonces, timestamps and passwords, in the order of their codes
Punctuation == "-./0123456789:"
Uppercase   == "ABCDEFGHIJKLMNOPQRSTUVWXYZ"
Lowercase   == "abcdefghijklmnopqrstuvwxyz"

\* the byte of a character
Ascii(ch) ==
    IF StrContains(Punctuation, ch) THEN 44 + IndexOf(Punctuation, ch)
    ELSE IF StrContains(Uppercase, ch) THEN 64 + IndexOf(Uppercase, ch)
    ELSE 96 + IndexOf(Lowercase, ch)

\* []byte(str)
Bytes(str) == [i \in 1..Len(str) |-> Ascii(SubSeq(str, i, i))]

Base64Alphabet == Uppercase \o Lowercase \o "0123456789+/"

Base64Char(v) == SubSeq(Base64Alphabet, v + 1, v + 1)

\* base64.StdEncoding.EncodeToString, from the group of three bytes starting at byte i
RECURSIVE Base64From(_, _)
Base64From(bytes, i) ==
    IF i > Len(bytes) THEN ""
    ELSE LET b1 == bytes[i]
             b2 == IF i + 1 <= Len(bytes) THEN bytes[i + 1] ELSE 0
             b3 == IF i + 2 <= Len(bytes) THEN bytes[i + 2] ELSE 0
         IN  Base64Char(b1 \div 4)
             \o Base64Char((b1 % 4) * 16 + (b2 \div 16))
             \o (IF i + 1 <= Len(bytes) THEN Base64Char((b2 % 16) * 4 + (b3 \div 64)) ELSE "=")
             \o (IF i + 2 <= Len(bytes) THEN Base64Char(b3 % 64) ELSE "=")
             \o Base64From(bytes, i + 3)

Base64(bytes) == Base64From(bytes, 1)

(***************************************************************************)
(* crypto/sha1 (FIPS 180-4), as makeRequest uses it (device.go:309-314).   *)
(***************************************************************************)
\* the initial chaining value
SHA1Init ==
    << <<26437, 8961>>, <<61389, 43913>>, <<39098, 56574>>, <<4146, 21622>>, <<50130, 57840>> >>

\* the constant of round t
SHA1K(t) ==
    IF t < 20 THEN <<23170, 31129>>
    ELSE IF t < 40 THEN <<28377, 60321>>
    ELSE IF t < 60 THEN <<36635, 48348>>
    ELSE <<51810, 49622>>

\* the function of round t
SHA1F(t, b, c, e) ==
    IF t < 20 THEN WOr(WAnd(b, c), WAnd(WNot(b), e))
    ELSE IF t < 40 THEN WXor(WXor(b, c), e)
    ELSE IF t < 60 THEN WOr(WOr(WAnd(b, c), WAnd(b, e)), WAnd(c, e))
    ELSE WXor(WXor(b, c), e)

\* the message with its padding: the byte 128, zeros, and the length in bits
\* in the last eight bytes (messages here are shorter than 8192 bytes)
Padded(bytes) ==
    LET n     == Len(bytes)
        total == (((n + 8) \div 64) + 1) * 64
    IN  [i \in 1..total |->
            IF i <= n THEN bytes[i]
            ELSE IF i = n + 1 THEN 128
            ELSE IF i = total - 1 THEN ((8 * n) \div 256) % 256
            ELSE IF i = total THEN (8 * n) % 256
            ELSE 0]

\* the padded message as blocks of sixteen words
Blocks(padded) ==
    [k \in 1..(Len(padded) \div 64) |->
        [j \in 1..16 |->
            LET o == 64 * (k - 1) + 4 * (j - 1)
            IN  << padded[o + 1] * 256 + padded[o + 2], padded[o + 3] * 256 + padded[o + 4] >>]]

\* hash.Sum(nil): the twenty bytes of the chaining value
SumBytes(h) ==
    [i \in 1..20 |->
        LET w == h[((i - 1) \div 4) + 1]
            k == (i - 1) % 4
        IN  IF k = 0 THEN w[1] \div 256
            ELSE IF k = 1 THEN w[1] % 256
            ELSE IF k = 2 THEN w[2] \div 256
            ELSE w[2] % 256]

(***************************************************************************)
(* The password digest of two requests (device.go:306-314).                *)
(***************************************************************************)
\* what uuid.NewString() can give
Nonces == { "eccb3c9d-8031-4215-a1f6-b25e8efa52a6", "eccb3c9d-8031-4215-a1f6-b25e8efa52a7" }

\* what time.Now().Add(d.ClockOffset).UTC().Format(time.RFC3339Nano) can give
Timestamps == { "2026-11-05T08:14:52.123456789Z", "2026-11-05T08:14:57.123456789Z" }

\* what d.Password can be
Passwords == { "secret", "Secret" }

DigestInputs == [nonce : Nonces, created : Timestamps, password : Passwords]

\* the number of nonce, timestamp and password in which two inputs differ
Differences(x, y) ==
    (IF x.nonce # y.nonce THEN 1 ELSE 0) + (IF x.created # y.created THEN 1 ELSE 0)
    + (IF x.password # y.password THEN 1 ELSE 0)

\* mutant: the password is left out of the hash
DigestMessage_NoPassword(in) == in.nonce \o in.created

\* device.go:310  nonce + created + d.Password
DigestMessage(in) == in.nonce \o in.created \o in.password

InitDigest ==
    /\ QuietRun /\ IdleScan /\ IdleDiscovery /\ IdleIPs
    /\ hIn \in { q \in DigestInputs \X DigestInputs : Differences(q[1], q[2]) <= 1 }
    /\ hpc = "write"
    /\ hBlocks = << >>
    /\ hW = << >>
    /\ hT = 0
    /\ hReg = << >>
    /\ hH = << >>
    /\ hOut = << >>

\* device.go:309-310  sha1.New() and hash.Write of the next request's message
DigestWrite ==
    /\ hpc = "write"
    /\ LET blocks == Blocks(Padded(Bytes(DigestMessage(hIn[Len(hOut) + 1]))))
       IN  /\ hBlocks' = blocks
           /\ hW' = blocks[1]
    /\ hH' = SHA1Init
    /\ hReg' = SHA1Init
    /\ hT' = 0
    /\ hpc' = "round"
    /\ UNCHANGED <<hIn, hOut>>

\* crypto/sha1  one round of the block function
DigestRound ==
    /\ hpc = "round"
    /\ hT < 80
    /\ LET w == IF hT < 16 THEN hW[hT + 1]
                ELSE Rotl(WXor(WXor(hW[hT - 2], hW[hT - 7]),
                               WXor(hW[hT - 13], hW[hT - 15])), 1)
           temp == WAdd(WAdd(WAdd(WAdd(Rotl(hReg[1], 5),
                                       SHA1F(hT, hReg[2], hReg[3], hReg[4])),
                                  hReg[5]), SHA1K(hT)), w)
       IN  /\ hW' = IF hT < 16 THEN hW ELSE Append(hW, w)
           /\ hReg' = << temp, hReg[1], Rotl30(hReg[2]), hReg[3], hReg[4] >>
    /\ hT' = hT + 1
    /\ UNCHANGED <<hIn, hpc, hBlocks, hH, hOut>>

\* crypto/sha1  the end of a block: the registers are added to the chaining
\* value, and the next block, if there is one, begins
DigestBlockEnd ==
    /\ hpc = "round"
    /\ hT = 80
    /\ hH' = [k \in 1..5 |-> WAdd(hH[k], hReg[k])]
    /\ hReg' = hH'
    /\ hBlocks' = Tail(hBlocks)
    /\ hT' = 0
    /\ IF Tail(hBlocks) = << >>
       THEN hpc' = "sum" /\ hW' = << >>
       ELSE hpc' = "round" /\ hW' = hBlocks[2]
    /\ UNCHANGED <<hIn, hOut>>

\* device.go:314  base64.StdEncoding.EncodeToString(hash.Sum(nil))
DigestSum ==
    /\ hpc = "sum"
    /\ hOut' = Append(hOut, Base64(SumBytes(hH)))
    /\ hpc' = IF Len(hOut) + 1 < Len(hIn) THEN "write" ELSE "done"
    /\ UNCHANGED <<hIn, hBlocks, hW, hT, hReg, hH>>

NextDigest ==
    \/ DigestWrite /\ UNCHANGED <<vars, scanVars, discoVars, ipVars>>
    \/ DigestRound /\ UNCHANGED <<vars, scanVars, discoVars, ipVars>>
    \/ DigestBlockEnd /\ UNCHANGED <<vars, scanVars, discoVars, ipVars>>
    \/ DigestSum /\ UNCHANGED <<vars, scanVars, discoVars, ipVars>>

DigestSpec == InitDigest /\ [][NextDigest]_allVars

(***************************************************************************)
(* Properties                                                              *)
(***************************************************************************)
\* the discovery-derived part of the merged list (scan.go:31-33)
DiscoveryPart == SubSeq(candidates, 1, Len(candidates) - Len(portCandidates))

\* the run went through its whole probing loop and returned nil, nil
LoopCompleted == pc = "probe" /\ status = "returned"

\* C1: Device.Probe is never called twice for one candidate string, only for
\* strings of the merged list, and when the probing loop has run to its end
\* it has been called exactly once for every distinct string of the list,
\* however often discovery and the port scan produced it.
C1_ProbedOncePerCandidate ==
    /\ \A c \in CandidateStrings : probeCount[c] <= 1
    /\ \A c \in CandidateStrings : probeCount[c] = 1 => c \in Range(candidates)
    /\ LoopCompleted => \A c \in Range(candidates) : probeCount[c] = 1

\* a completed run whose list holds one endpoint from discovery and again from the port scan
C1_Witness ==
    /\ LoopCompleted
    /\ \E h \in Range(portCandidates) :
         /\ DeviceServiceURL(h) \in Range(DiscoveryPart)
         /\ probeCount[DeviceServiceURL(h)] = 1

\* the order of the steps of Probe
ProbeOrder ==
    <<"GetCapabilities", "GetSystemDateAndTime", "GetDeviceInformation", "GetProfiles">>

\* C2: the requests of one Probe are, in this order, capability discovery,
\* clock time, identity, profile list and then the stream URI of the
\* profiles in their listed order; every request but the last one issued
\* has succeeded; and a Probe that returns (true, nil) has issued all of them.
C2_RequestOrder ==
    /\ \A i \in DOMAIN reqs :
         /\ i <= Len(ProbeOrder) => reqs[i].op = ProbeOrder[i]
         /\ i > Len(ProbeOrder) =>
              /\ reqs[i].op = "GetStreamUri"
              /\ i - Len(ProbeOrder) <= Len(profiles)
              /\ reqs[i].arg = profiles[i - Len(ProbeOrder)].Token
         /\ i < Len(reqs) => reqs[i].result = "ok"
    /\ (ppc = "ret" /\ retValid /\ retErr = "") =>
         /\ Len(reqs) = Len(ProbeOrder) + Len(profiles)
         /\ \A i \in DOMAIN reqs : reqs[i].result = "ok"

\* a Probe that ran all its steps for a device with two or more profiles
C2_Witness ==
    /\ ppc = "ret" /\ retValid /\ retErr = ""
    /\ Len(profiles) >= 2
    /\ Len(reqs) = Len(ProbeOrder) + Len(profiles)

\* capability discovery succeeded and the response carried no media address
EmptyMediaAnswer ==
    /\ Len(reqs) >= 1
    /\ reqs[1].op = "GetCapabilities"
    /\ reqs[1].result = "ok"
    /\ reqs[1].answer = ""

\* C3: after a successful capability response without a media address, Probe
\* has returned not valid, no other request was issued, Capabilities is
\* unset, and the loop goes on to the next candidate without ending the run
\* and without logging a device; and a Probe that returns valid has stored
\* a non-empty media address.
C3_EmptyMediaRejected ==
    /\ [](EmptyMediaAnswer =>
            /\ ppc \in {"ret", "idle"}
            /\ ~retValid
            /\ Len(reqs) = 1
            /\ d.Capabilities.Media = "")
    /\ []((ppc = "ret" /\ retValid) => d.Capabilities.Media # "")
    /\ [][(EmptyMediaAnswer /\ ppc = "ret") =>
            /\ status' = "running"
            /\ runErr' = ""
            /\ ppc' = "idle"
            /\ idx' = idx + 1
            /\ found' = found]_vars

\* the loop has moved past a candidate rejected for its empty media address, with another one to go
C3_Witness ==
    /\ EmptyMediaAnswer
    /\ ppc = "idle"
    /\ status = "running"
    /\ idx = 2
    /\ Len(candidates) >= 2

\* the last request of the current Probe failed, and it was the i-th
LastFailedAt(i) == Len(reqs) = i /\ reqs[i].result = "err"

\* C4: when the clock-time request fails after a capability response with a
\* media address, Probe returns an error and valid = true.
C4_ClockFailureStillValid ==
    (ppc = "ret" /\ LastFailedAt(2)) => (retErr # "" /\ retValid)

\* C5: once the loop has dealt with a candidate whose capability response
\* carried a media address and whose identity, profile-list or stream-URI
\* request failed, the device is among those reported as found.
C5_PartialDeviceReported ==
    (ppc = "idle" /\ Len(reqs) >= 3 /\ LastFailedAt(Len(reqs))) =>
        \E i \in DOMAIN found : found[i].address = d.Address

\* C6: ClockOffset changes only when a Device is created and when the
\* clock-time request has succeeded (the step after capability discovery),
\* so it is set at most once per Probe and is zero until then; every
\* request that carries the header and is issued after that step has
\* Created = local time of the request + that offset, and every one issued
\* before has Created = local time.
C6_ClockOffsetOnce ==
    /\ [][d'.ClockOffset # d.ClockOffset =>
            \/ /\ ppc = "idle"
               /\ ppc' = "GetCapabilities"
               /\ d'.ClockOffset = 0
            \/ /\ ppc = "GetSystemDateAndTime"
               /\ ppc' = "GetDeviceInformation"
               /\ Len(reqs') = 2
               /\ reqs'[1].result = "ok"
               /\ reqs'[2].result = "ok"]_vars
    /\ []((Len(reqs) < 2 \/ reqs[2].result # "ok") => d.ClockOffset = 0)
    /\ [](\A i \in DOMAIN reqs : reqs[i].auth =>
            reqs[i].created = reqs[i].at + (IF i > 2 THEN d.ClockOffset ELSE 0))

\* an authenticated stream-URI request issued under a non-zero offset
C6_Witness ==
    /\ d.ClockOffset # 0
    /\ Len(reqs) > Len(ProbeOrder)
    /\ reqs[Len(reqs)].auth
    /\ reqs[Len(reqs)].created = reqs[Len(reqs)].at + d.ClockOffset

\* C7: the capability-discovery and clock-time requests never carry the
\* authentication header, whatever the credentials.
C7_FirstStepsUnauthenticated ==
    \A i \in DOMAIN reqs :
        reqs[i].op \in {"GetCapabilities", "GetSystemDateAndTime"} => ~reqs[i].auth

\* C8: when a stream-URI request fails, Probe has returned an error, no
\* request follows the failed one, and Device.Profiles is empty, whatever
\* was resolved before.
C8_NoPartialProfiles ==
    (Len(reqs) > Len(ProbeOrder) /\ reqs[Len(reqs)].result = "err") =>
        /\ ppc \in {"ret", "idle"}
        /\ retErr # ""
        /\ d.Profiles = << >>
        /\ \A i \in DOMAIN found : found[i].address = d.Address => found[i].profiles = << >>

\* the second of three stream-URI requests failed: one profile was resolved, one never asked for
C8_Witness ==
    /\ ppc = "ret"
    /\ Len(profiles) = 3
    /\ LastFailedAt(Len(ProbeOrder) + 2)
    /\ profiles[1].URI # ""
    /\ d.Profiles = << >>

\* C9: when the run has ended in its probing phase, every distinct
\* candidate of the merged list has been probed.
C9_EveryCandidateProbed ==
    (pc = "probe" /\ status # "running") =>
        \A c \in Range(candidates) : probeCount[c] >= 1

\* C10: a discovery call that cannot join the multicast group or cannot
\* send its probe does not end the run.
C10_DiscoveryFailureConfined ==
    discErr \in {"unable to join multicast group", "unable to send discovery probe"} =>
        status = "running"

(***************************************************************************)
(* The candidate a port-scan hit becomes.                                  *)
(***************************************************************************)
\* the hit of the scenario: 192.168.1.1 answering on the target port
ScanHit == "192.168.1.1:80" \in Range(portCandidates)

\* C18 (as the code has it): every host:port string the port scan returned
\* becomes the candidate "http://" + host:port + "/onvif/device_service", port
\* included: with target port 80 a hit on 192.168.1.1:80 becomes and is probed
\* as http://192.168.1.1:80/onvif/device_service.
C18_ScanHitKeepsPort ==
    /\ \A i \in 1..Len(portCandidates) :
          candidates[Len(DiscoveryPart) + i] =
              "http://" \o portCandidates[i] \o "/onvif/device_service"
    /\ ScanHit => "http://192.168.1.1:80/onvif/device_service" \in Range(candidates)
    /\ (ScanHit /\ LoopCompleted) =>
          probeCount["http://192.168.1.1:80/onvif/device_service"] = 1

\* a completed run whose port scan found 192.168.1.1:80 and nothing came from discovery
C18_Witness ==
    /\ LoopCompleted
    /\ ScanHit
    /\ DiscoveryPart = << >>
    /\ probeCount["http://192.168.1.1:80/onvif/device_service"] = 1

\* C18 as stated: a hit on 192.168.1.1:80 becomes the candidate without a port
C18_Original ==
    ScanHit => "http://192.168.1.1/onvif/device_service" \in Range(candidates)

(***************************************************************************)
(* The host list of a prefix.                                              *)
(***************************************************************************)
\* the number of addresses of a prefix of mask length L
PrefixSize(L) == 2 ^ (32 - L)

\* C19: for a prefix of mask length L in 24..32, whatever host address inside
\* it was given, the loop of GetIPsOnNetwork never makes more than 2^(32-L)
\* turns, and the list it returns has exactly 2^(32-L) entries, pairwise
\* distinct, the i-th being the network address plus i-1:
\* the first three octets of the input, the last one counted up from the
\* input's last octet rounded down to a multiple of 2^(32-L).
C19_PrefixEnumerated ==
    LET n    == PrefixSize(nCidr.bits)
        base == nCidr.ip[4] - (nCidr.ip[4] % n)
    IN  /\ npc = "loop" => Len(nIps) <= n
        /\ npc = "returned" =>
              /\ Len(nIps) = n
              /\ \A i \in 1..n :
                    nIps[i] = ToString(nCidr.ip[1]) \o "." \o ToString(nCidr.ip[2]) \o "."
                              \o ToString(nCidr.ip[3]) \o "." \o ToString(base + i - 1)
              /\ \A i, j \in 1..n : nIps[i] = nIps[j] => i = j

\* a /24 given by a host address in its middle, enumerated from its network address
C19_Witness ==
    /\ npc = "returned"
    /\ nCidr = [ip |-> <<192, 168, 1, 77>>, bits |-> 24]
    /\ Len(nIps) = 256
    /\ nIps[1] = "192.168.1.0"
    /\ nIps[256] = "192.168.1.255"

(***************************************************************************)
(* The concurrent dials of FindHostsWithOpenPort.                          *)
(***************************************************************************)
\* the candidates whose dial has been made
Dialed == { c \in DOMAIN dialErr : dialErr[c] # "undialed" }

\* the candidates whose dial gave a connection
DialSucceeded == { c \in Dialed : dialErr[c] = "" }

\* the candidates whose dial reported that the process is out of file descriptors
DialExhausted == { c \in Dialed : StrContains(dialErr[c], "too many open files") }

\* the candidates whose dial failed in any other way
DialFailedOther == Dialed \ (DialSucceeded \cup DialExhausted)

\* FindHostsWithOpenPort is over, by a return or by a panic
ScanOver == fpc \in {"returned", "panicked"}

\* C12: once one dial has reported too many open files, FindHostsWithOpenPort
\* never returns: it ends in a panic and hands no slice, not even the hosts
\* found open so far, to its caller.
C12_ExhaustionAbortsScan ==
    /\ DialExhausted # {} => fpc # "returned"
    /\ (ScanOver /\ DialExhausted # {}) => (fpc = "panicked" /\ fResult = << >>)

\* the scan ended in a panic although a host had been found open and kept
C12_Witness ==
    /\ fpc = "panicked"
    /\ DialExhausted # {}
    /\ Len(keepers) > 0
    /\ fResult = << >>

\* C13: a dial that failed otherwise than by exhaustion makes IsPortOpen give
\* (false, no error); its candidate is never kept, its task ends without a
\* panic, every candidate is still dialed before the scan is over, and a scan
\* with such failures only returns, with exactly the hosts whose dial succeeded.
C13_OtherDialErrorsSkipped ==
    /\ \A c \in DialFailedOther :
          /\ IsPortOpen(c, dialErr[c]) = <<FALSE, "">>
          /\ task[c] = "done"
          /\ c \notin Range(keepers)
    /\ ScanOver => Dialed = fCands
    /\ (ScanOver /\ DialExhausted = {}) =>
          (fpc = "returned" /\ Range(fResult) = DialSucceeded)

\* a scan that returned one open host although two other dials failed, by refusal and by timeout
C13_Witness ==
    /\ fpc = "returned"
    /\ Len(fResult) = 1
    /\ \E c1, c2 \in DialFailedOther :
          /\ dialErr[c1] = "dial tcp: connect: connection refused"
          /\ dialErr[c2] = "dial tcp: i/o timeout"

\* the tasks between mu.Lock() and mu.Unlock()
InCritical == { c \in DOMAIN task : task[c] \in {"read", "write", "unlock"} }

\* C14: whatever the interleaving, at most one task is between Lock and Unlock,
\* FindHostsWithOpenPort returns only when every task has ended, and the slice
\* it returns holds every candidate whose dial succeeded exactly once and no
\* candidate whose dial failed.
C14_AllTasksJoinedNoLostAppend ==
    /\ Cardinality(InCritical) <= 1
    /\ ScanOver => \A c \in fCands : task[c] \in {"done", "panicked"}
    /\ fpc = "returned" =>
          /\ \A c \in fCands : task[c] = "done"
          /\ Range(fResult) = DialSucceeded
          /\ Len(fResult) = Cardinality(DialSucceeded)

\* a scan that returned two open hosts and left out one whose dial was refused
C14_Witness ==
    /\ fpc = "returned"
    /\ Cardinality(fCands) = 3
    /\ Len(fResult) = 2
    /\ DialFailedOther # {}

(***************************************************************************)
(* The prefixes FindHostsWithOpenPort scans.                               *)
(***************************************************************************)
\* the "ip:port" strings of all addresses of the prefix of a CIDR (of mask
\* length 16 or more), on the target port
PrefixHosts(cidr) ==
    LET m == MaskAddr(cidr.ip, cidr.bits)
    IN  { HostPort(ToString(m[1]) \o "." \o ToString(m[2]) \o "."
                     \o ToString(m[3] + (h \div 256)) \o "." \o ToString(m[4] + (h % 256)),
                   DefaultPort) : h \in 0..(PrefixSize(cidr.bits) - 1) }

\* the interfaces whose prefix has more than 256 addresses, and the others
WideIFaces   == { i \in DOMAIN fIfaces : PrefixSize(fIfaces[i].bits) > 256 }
NarrowIFaces == DOMAIN fIfaces \ WideIFaces

\* the hosts of all prefixes of at most 256 addresses
NarrowHosts == UNION { PrefixHosts(fIfaces[i]) : i \in NarrowIFaces }

\* C11 (as the code has it): an interface whose prefix has more than 256
\* addresses adds nothing to the scan: every host dialed or returned lies in
\* the prefix of an interface with at most 256 addresses, so an address of the
\* larger prefix is dialed only where such a smaller prefix of another
\* interface covers it too; every prefix of at most 256 addresses, one of
\* exactly 256 included, is dialed in full.
C11_OnlyNarrowPrefixesScanned ==
    (Dialed \cup Range(fResult) \cup Range(keepers) # {}) =>
      LET narrow == NarrowHosts
      IN  /\ Dialed \cup Range(fResult) \cup Range(keepers) \subseteq narrow
          /\ \A i \in WideIFaces :
                PrefixHosts(fIfaces[i]) \cap (Dialed \cup Range(fResult)) \subseteq narrow
          /\ ScanOver => Dialed = narrow

\* a /23 on one interface and a /24 inside it on the other: the 256 hosts of
\* the /24 were dialed and one of them was returned
C11_Witness ==
    /\ fpc = "returned"
    /\ \E i \in WideIFaces : fIfaces[i].bits = 23
    /\ \E i \in NarrowIFaces : fIfaces[i].bits = 24
    /\ Cardinality(Dialed) = 256
    /\ "192.168.1.1:80" \in Range(fResult)
    /\ "192.168.0.200:80" \notin Dialed

\* C11 as stated: no address of a prefix of more than 256 addresses is dialed or returned
C11_Original ==
    (Dialed \cup Range(fResult) # {}) =>
      \A i \in WideIFaces :
          PrefixHosts(fIfaces[i]) \cap (Dialed \cup Range(fResult)) = {}

(***************************************************************************)
(* What a discovery packet adds to the list of transmitters.               *)
(***************************************************************************)
\* the step that reads one more packet and handles it
ReadsPacket == gpc = "read" /\ nRead' = nRead + 1

\* what the step appended to transmitters
Appended == SubSeq(transmitters', Len(transmitters) + 1, Len(transmitters'))

\* GetONVIFVideoTransmitters returned its list without an error
ListReturned == gpc = "returned" /\ gErr = ""

\* the match records of the packet read last that carry the transmitter marker
MarkedRecords ==
    { k \in 1..Len(packet.Matches) :
        StrContains(packet.Matches[k].Types, "NetworkVideoTransmitter") }

\* C15: handling a packet whose RelatesTo does not contain the message
\* identifier of this call's probe leaves transmitters as it was, whatever the
\* types and addresses of its match records; and the list returned is
\* transmitters as the handled packets left it.
C15_UncorrelatedPacketIgnored ==
    /\ [][(ReadsPacket /\ ~StrContains(packet'.UUID, msgID))
             => transmitters' = transmitters]_allVars
    /\ [](ListReturned => gResult = transmitters)

\* a call that read one packet answering another probe, with a transmitter
\* record in it, and returned the empty list
C15_Witness ==
    /\ ListReturned
    /\ nRead = 1
    /\ ~packet.malformed
    /\ packet.UUID = "urn:uuid:b1fc8184-b342"
    /\ Len(packet.Matches) = 1
    /\ MarkedRecords = {1}
    /\ packet.Matches[1].XAddrs = "http://10.0.0.99/onvif/device_service"
    /\ gResult = << >>

\* C16: handling a packet appends at most one endpoint for each of its match
\* records whose Types carries the NetworkVideoTransmitter marker and none for
\* the others: a response without a marked record adds nothing, and one with
\* a marked and an unmarked record adds at most one endpoint.
C16_UnmarkedRecordIgnored ==
    [][ReadsPacket =>
          Len(Appended) <=
              Cardinality({ k \in 1..Len(packet'.Matches) :
                  StrContains(packet'.Matches[k].Types, "NetworkVideoTransmitter") })]_allVars

\* a call that read one answer to its probe with an unmarked record before a
\* marked one, both with good addresses, and returned one endpoint
C16_Witness ==
    /\ ListReturned
    /\ nRead = 1
    /\ StrContains(packet.UUID, msgID)
    /\ Len(packet.Matches) = 2
    /\ MarkedRecords = {2}
    /\ packet.Matches[1].XAddrs = "http://10.0.0.99:8080/onvif/device_service"
    /\ packet.Matches[2].XAddrs = "http://10.0.0.99/onvif/device_service"
    /\ gResult = << "http://10.0.0.5:80/onvif/device_service" >>

\* the call read one packet only: an answer to its probe from 10.0.0.5 with
\* the one transmitter record advertising http://10.0.0.99/onvif/device_service
AdvertisedElsewhere ==
    /\ ListReturned
    /\ nRead = 1
    /\ packet = [ src       |-> "10.0.0.5:3702",
                  malformed |-> FALSE,
                  UUID      |-> "urn:uuid:" \o msgID,
                  Matches   |-> << [ Types  |-> "dn:NetworkVideoTransmitter tds:Device",
                                     XAddrs |-> "http://10.0.0.99/onvif/device_service" ] >> ]

\* C17 (as the code has it): a transmitter record advertising
\* http://10.0.0.99/onvif/device_service, received from 10.0.0.5, yields the
\* candidate http://10.0.0.5:80/onvif/device_service; every endpoint in the
\* list has the IP of a UDP source as host, followed by the advertised port or
\* by 80, written out, and never the advertised host; what the packet read
\* last yields begins with "http://" and the text of its own source address
\* up to the colon before the source port.
C17_SourceHostPortWritten ==
    /\ AdvertisedElsewhere => gResult = << "http://10.0.0.5:80/onvif/device_service" >>
    /\ \A k \in 1..Len(transmitters) :
          /\ transmitters[k] \in
                { "http://" \o ip \o ":" \o port \o "/onvif/device_service" :
                    ip \in {"10.0.0.5", "192.168.1.1"}, port \in {"80", "8080"} }
          /\ ~StrContains(transmitters[k], "10.0.0.99")
    /\ nRead > 0 =>
          \A k \in 1..Len(PacketEndpoints(packet, msgID)) :
              SubSeq(PacketEndpoints(packet, msgID)[k], 1, Len(packet.src) + 3)
                  = "http://" \o SubSeq(packet.src, 1, Len(packet.src) - 4)

\* the scenario, returned
C17_Witness ==
    /\ AdvertisedElsewhere
    /\ Len(gResult) = 1

\* C17 as stated: the candidate of the scenario has no port
C17_Original ==
    AdvertisedElsewhere => gResult = << "http://10.0.0.5/onvif/device_service" >>

(***************************************************************************)
(* The password digest as a function of nonce, timestamp and password.     *)
(***************************************************************************)
\* C20: of two requests, those with the same nonce, timestamp and password
\* carry the same base64 digest, and those that differ in exactly one of the
\* three carry different digests; a digest is the base64 text, 28 characters
\* long, of the SHA-1 of nonce + timestamp + password.
C20_DigestFollowsInputs ==
    hpc = "done" =>
      /\ Len(hOut) = 2
      /\ \A k \in 1..2 : Len(hOut[k]) = 28
      /\ Differences(hIn[1], hIn[2]) = 0 => hOut[1] = hOut[2]
      /\ Differences(hIn[1], hIn[2]) = 1 => hOut[1] # hOut[2]
      /\ \A k \in 1..2 :
            hIn[k] = [ nonce    |-> "eccb3c9d-8031-4215-a1f6-b25e8efa52a6",
                       created  |-> "2026-11-05T08:14:52.123456789Z",
                       password |-> "secret" ]
              => hOut[k] = "sB0DAA9Ir33hDzPNvozlGfPdOxo="

\* two requests that differ in the case of one letter of the password only
C20_Witness ==
    /\ hpc = "done"
    /\ hIn[1].nonce = hIn[2].nonce
    /\ hIn[1].created = hIn[2].created
    /\ hIn[1].password = "secret"
    /\ hIn[2].password = "Secret"
    /\ hOut[1] # hOut[2]

(***************************************************************************)
(* What GetDevicesOnNetwork hands back.                                    *)
(***************************************************************************)
\* C24: whenever GetDevicesOnNetwork has returned, with or without an error,
\* the device list it returned is nil; on a run that went through its whole
\* probing loop the error is nil too, however many devices were found, and
\* these appear in the log only.
C24_ReturnsNilList ==
    /\ status = "returned" => devices = << >>
    /\ LoopCompleted => (runErr = "" /\ devices = << >>)

\* a completed run that logged a device found and returned nil, nil
C24_Witness ==
    /\ LoopCompleted
    /\ Len(found) >= 1
    /\ runErr = ""
    /\ devices = << >>

Reads == gpc = "read" /\ (nRead' # nRead \/ packet' # packet)

\* the packet answers this call's probe and has a transmitter record whose
\* address parses
Answers(pk) ==
    /\ ~pk.malformed
    /\ StrContains(pk.UUID, msgID)
    /\ \E k \in 1..Len(pk.Matches) :
         /\ StrContains(pk.Matches[k].Types, "NetworkVideoTransmitter")
         /\ pk.Matches[k].XAddrs # "http://10.0.0.99:port/onvif/device_service"

\* C23: reading a packet that does not unmarshal leaves transmitters as it
\* was, keeps the call in its read loop and sets no error; a packet that
\* answers the probe and is read after a malformed one still adds an
\* endpoint; and a call that read a malformed packet returns either its list
\* without an error or the error of a failed read.
C23_MalformedPacketSkipped ==
    /\ [][(Reads /\ packet'.malformed)
             => (transmitters' = transmitters /\ gpc' = "read" /\ gErr' = "")]_allVars
    /\ [][(ReadsPacket /\ gBad > 0 /\ Answers(packet'))
             => (Len(Appended) >= 1 /\ gpc' = "read")]_allVars
    /\ [](gpc = "returned" /\ gBad > 0
             => gErr \in {"", "error reading discovery response"})

\* a call that read a malformed packet first and an answer to its probe
\* second, and returned the endpoint of the second without an error
C23_Witness ==
    /\ ListReturned
    /\ gBad = 1
    /\ nRead = 2
    /\ Answers(packet)
    /\ Len(gResult) >= 1

\* C21: once it is in its read loop the call always eventually returns; it
\* returns its list without an error only when the three seconds of the read
\* deadline have passed, and leaves the loop otherwise only on a read that
\* failed for another reason; no packet is read once the deadline has passed,
\* and every packet read before it is handled and leaves the call in the
\* loop, however many were read before.
C21_ReturnsAtDeadline ==
    /\ (gpc = "read") ~> (gpc = "returned")
    /\ [](ListReturned => gNow = ReadDeadline)
    /\ [][(gpc = "read" /\ gpc' = "returned")
             => (gNow = ReadDeadline \/ gErr' = "error reading discovery response")]_allVars
    /\ [][Reads => (/\ gNow < ReadDeadline
                    /\ gpc' = "read"
                    /\ transmitters' = transmitters \o PacketEndpoints(packet', msgID))]_allVars

\* a call that went on reading after two packets, the second with an
\* endpoint, and returned when the deadline had passed
C21_Witness ==
    /\ ListReturned
    /\ gNow = ReadDeadline
    /\ nRead >= 2
    /\ packet.malformed
    /\ Len(gResult) >= 1

\* C21 as stated: the loop ends only because the deadline expired
C21_Original ==
    (gpc = "returned" /\ gErr \notin SetupErrors) => gNow = ReadDeadline

====
